---- MODULE Spec2Model ----
(***************************************************************************)
(* SpotDown.py: one request of download_spotify_url.                       *)
(*   resolve metadata -> spotdl with retries and format fallback ->        *)
(*   match files to tracks -> transcode the pairs in a thread pool ->      *)
(*   append to the download log.                                           *)
(* File names and titles are sequences of one-character strings.           *)
(***************************************************************************)
EXTENDS Integers, Sequences, FiniteSets, TLC

(* ------------------------------ bounds --------------------------------- *)
MaxItems == 2          \* items in one catalog response
MaxWorkers == 2        \* max_workers values convert_to_aac_parallel is called with
MaxPadTracks == 11     \* track-list lengths of the padding-width specification

(* ------------------------- program constants --------------------------- *)
PREFERRED_FORMAT == "flac"
FALLBACK_FORMAT == "mp3"
retries == 2
AudioSuffixes == { <<".", "m", "p", "3">>, <<".", "f", "l", "a", "c">>,
                   <<".", "w", "a", "v">>, <<".", "o", "g", "g">> }

(* ------------------------------ inputs --------------------------------- *)
None == "None"
\* the value of item["track"] for a playlist entry whose track was removed
Null == <<"null">>
\* None where a Path is expected
NoFile == [stem |-> <<>>, suffix |-> <<>>]
\* exit codes of the external tools
ExitCodes == {0, 1}
\* track titles: one contained in another, and upper against lower case
Titles == { <<"a">>, <<"A", "b">>, <<"B">> }
\* files spotdl (or an earlier run) may leave in the target folder
DirFiles == { [stem |-> <<"A", "B">>,      suffix |-> <<".", "M", "P", "3">>],
              [stem |-> <<"b">>,           suffix |-> <<".", "f", "l", "a", "c">>],
              [stem |-> <<"b">>,           suffix |-> <<".", "m", "4", "a">>] }

\* items of an album response: track_number restarts on a second disc
AlbumItems == { [track_number |-> 1, name |-> <<"a">>],
                [track_number |-> 2, name |-> <<"A", "b">>],
                [track_number |-> 1, name |-> <<"B">>] }

SeqsUpTo(S, n) == UNION { [1..k -> S] : k \in 0..n }

(* ------------------------------ text ----------------------------------- *)
\* code points of the characters that occur in the names used here
ord(c) ==
  CASE c = " " -> 32 [] c = "-" -> 45 [] c = "." -> 46 [] c = "0" -> 48
    [] c = "1" -> 49 [] c = "2" -> 50 [] c = "3" -> 51 [] c = "4" -> 52
    [] c = "5" -> 53 [] c = "6" -> 54 [] c = "7" -> 55 [] c = "8" -> 56
    [] c = "9" -> 57 [] c = "?" -> 63 [] c = "A" -> 65 [] c = "B" -> 66
    [] c = "M" -> 77 [] c = "P" -> 80 [] c = "_" -> 95 [] c = "a" -> 97
    [] c = "b" -> 98 [] c = "c" -> 99 [] c = "f" -> 102 [] c = "l" -> 108
    [] c = "m" -> 109 [] c = "p" -> 112

lower_char(c) ==
  CASE c = "A" -> "a" [] c = "B" -> "b" [] c = "M" -> "m" [] c = "P" -> "p"
    [] OTHER -> c

lower(s) == [i \in 1..Len(s) |-> lower_char(s[i])]

\* Python's  needle in hay  for strings
contains(hay, needle) ==
  \E k \in 0..(Len(hay) - Len(needle)) :
     \A i \in 1..Len(needle) : hay[k + i] = needle[i]

InvalidChars == {"<", ">", ":", "\"", "/", "\\", "|", "?", "*"}

RECURSIVE strip(_)
strip(s) ==
  IF s = <<>> THEN s
  ELSE IF Head(s) \in {".", " "} THEN strip(Tail(s))
  ELSE IF s[Len(s)] \in {".", " "} THEN strip(SubSeq(s, 1, Len(s) - 1))
  ELSE s

sanitize_filename(filename) ==
  LET replaced == [i \in 1..Len(filename) |->
                     IF filename[i] \in InvalidChars THEN "_" ELSE filename[i]]
      stripped == strip(replaced)
  IN SubSeq(stripped, 1, IF Len(stripped) < 200 THEN Len(stripped) ELSE 200)

Digit(d) ==
  CASE d = 0 -> "0" [] d = 1 -> "1" [] d = 2 -> "2" [] d = 3 -> "3"
    [] d = 4 -> "4" [] d = 5 -> "5" [] d = 6 -> "6" [] d = 7 -> "7"
    [] d = 8 -> "8" [] d = 9 -> "9"

\* str(n) of a non-negative integer
RECURSIVE str(_)
str(n) == IF n < 10 THEN <<Digit(n)>> ELSE str(n \div 10) \o <<Digit(n % 10)>>

RECURSIVE zfill(_, _)
zfill(s, width) == IF Len(s) >= width THEN s ELSE zfill(<<"0">> \o s, width)

(* --------------------------- path ordering ----------------------------- *)
\* s < t for strings, by code point
RECURSIVE str_less(_, _)
str_less(s, t) ==
  IF t = <<>> THEN FALSE
  ELSE IF s = <<>> THEN TRUE
  ELSE IF Head(s) # Head(t) THEN ord(Head(s)) < ord(Head(t))
  ELSE str_less(Tail(s), Tail(t))

\* Path.__lt__ on two files of one folder compares their names
path_less(f, g) == str_less(f.stem \o f.suffix, g.stem \o g.suffix)

RECURSIVE sorted(_)
sorted(S) ==
  IF S = {} THEN <<>>
  ELSE LET m == CHOOSE f \in S : \A g \in S \ {f} : path_less(f, g)
       IN <<m>> \o sorted(S \ {m})

(* ------------------------------ state ---------------------------------- *)
VARIABLES
  pc,            \* position of the main thread in download_spotify_url
  resolved,      \* outcome of get_metadata_from_url
  content_type,  \* content_type of extract_spotify_id_and_type
  track_list,    \* metadata["tracks"]
  fmt_cur,       \* fmt argument of the running run_spotdl_download
  attempt,       \* loop variable of run_spotdl_download
  calls,         \* spotdl invocations so far: [fmt, attempt, returncode]
  sleeps,        \* time.sleep calls so far: [fmt, attempt, delay]
  folder,        \* folder returned by run_spotdl_download_with_fallback
  fmt,           \* format returned by run_spotdl_download_with_fallback
  folder_exists, \* the target folder is on disk
  dir,           \* the files in the target folder
  files,         \* convert_to_aac_parallel: the sorted audio files
  pad_digits,    \* convert_to_aac_parallel: pad_digits
  matched,       \* convert_to_aac_parallel: the (f, track, pad_digits) tuples
  max_workers,   \* size of the thread pool
  status,        \* per matched tuple: "queued", "running", "finished"
  saw,           \* per matched tuple: ffmpeg found its input file
  returncode,    \* per matched tuple: exit code of ffmpeg, -1 until it exits
  result,        \* per matched tuple: what embed_metadata returned
  starts,        \* per matched tuple: number of embed_metadata calls
  consumed,      \* results the main thread has taken from executor.map
  converted,     \* convert_to_aac_parallel: converted
  log            \* entries appended to LOG_FILE

vars == <<pc, resolved, content_type, track_list, fmt_cur, attempt, calls, sleeps, folder,
          fmt, folder_exists, dir, files, pad_digits, matched, max_workers,
          status, saw, returncode, result, starts, consumed, converted, log>>

downloadVars == <<fmt_cur, attempt, calls, sleeps, folder, fmt, folder_exists, dir>>
convertVars == <<files, pad_digits, matched, max_workers, status, saw, returncode, result,
                 starts, consumed, converted>>

Init ==
  /\ pc = "resolve"
  /\ resolved = "pending"
  /\ content_type = None
  /\ track_list = <<>>
  /\ fmt_cur = PREFERRED_FORMAT
  /\ attempt = 1
  /\ calls = <<>>
  /\ sleeps = <<>>
  /\ folder = None
  /\ fmt = None
  /\ folder_exists = FALSE
  /\ dir = {}
  /\ files = <<>>
  /\ pad_digits = 0
  /\ matched = <<>>
  /\ max_workers = 1
  /\ status = <<>>
  /\ saw = <<>>
  /\ returncode = <<>>
  /\ result = <<>>
  /\ starts = <<>>
  /\ consumed = 0
  /\ converted = 0
  /\ log = <<>>

(* ------------------------- metadata resolution ------------------------- *)
get_album_tracks(items) ==
  [i \in 1..Len(items) |-> [number |-> items[i].track_number, title |-> items[i].name]]

get_track_tracks(name) == << [number |-> 1, title |-> name] >>

\* the loop of get_playlist_metadata from enumerate index idx on
RECURSIVE get_playlist_tracks(_, _)
get_playlist_tracks(items, idx) ==
  IF idx > Len(items) THEN <<>>
  ELSE IF items[idx] # Null
       THEN << [number |-> idx, title |-> items[idx]] >> \o get_playlist_tracks(items, idx + 1)
       ELSE get_playlist_tracks(items, idx + 1)

get_liked_tracks(items) ==
  [i \in 1..Len(items) |-> [number |-> i, title |-> items[i]]]

\* download_spotify_url with a non-empty metadata dict, up to the first
\* spotdl attempt of run_spotdl_download(url, artist, album, PREFERRED_FORMAT)
StartDownload(kind, tracks) ==
  /\ resolved' = "collection"
  /\ content_type' = kind
  /\ track_list' = tracks
  /\ fmt_cur' = PREFERRED_FORMAT
  /\ attempt' = 1
  /\ folder_exists' = TRUE
  /\ pc' = "spotdl"
  /\ UNCHANGED <<calls, sleeps, folder, fmt, dir, log>>
  /\ UNCHANGED convertVars

ResolveEmpty ==
  /\ pc = "resolve"
  /\ resolved' = "empty"
  /\ pc' = "done"
  /\ UNCHANGED <<content_type, track_list, log>>
  /\ UNCHANGED downloadVars
  /\ UNCHANGED convertVars

ResolveRaises ==
  /\ pc = "resolve"
  /\ resolved' = "raised"
  /\ pc' = "raised"
  /\ UNCHANGED <<content_type, track_list, log>>
  /\ UNCHANGED downloadVars
  /\ UNCHANGED convertVars

ResolveAlbum ==
  /\ pc = "resolve"
  /\ \E items \in SeqsUpTo(AlbumItems, MaxItems) : StartDownload("album", get_album_tracks(items))

ResolveTrack ==
  /\ pc = "resolve"
  /\ \E name \in Titles : StartDownload("track", get_track_tracks(name))

ResolvePlaylist ==
  /\ pc = "resolve"
  /\ \E items \in SeqsUpTo(Titles \cup {Null}, MaxItems) :
        StartDownload("playlist", get_playlist_tracks(items, 1))

ResolveLiked ==
  /\ pc = "resolve"
  /\ \E items \in SeqsUpTo(Titles, MaxItems) : StartDownload("liked", get_liked_tracks(items))

(* ----------------------------- acquisition ----------------------------- *)
\* slip: range(1, retries + 3), one attempt too many
LastAttemptOneMore == retries + 2

\* the last value of  range(1, retries + 2)
LastAttempt == retries + 1

\* time.sleep(2 ** attempt)
RECURSIVE Pow(_, _)
Pow(b, e) == IF e = 0 THEN 1 ELSE b * Pow(b, e - 1)

Backoff(a) == Pow(2, a)

\* slip: the preferred format is reported whichever format succeeded
ReturnedFormatPreferred(f) == PREFERRED_FORMAT

\* the format run_spotdl_download_with_fallback returns with the folder of
\* the run_spotdl_download call for format f
ReturnedFormat(f) == f

\* one subprocess.run of spotdl; on exit 0 run_spotdl_download returns the
\* target folder and run_spotdl_download_with_fallback returns
SpotdlRun ==
  /\ pc = "spotdl"
  /\ \E rc \in ExitCodes :
       /\ calls' = Append(calls, [fmt |-> fmt_cur, attempt |-> attempt, returncode |-> rc])
       /\ IF rc = 0
          THEN /\ folder' = "target_folder"
               /\ fmt' = ReturnedFormat(fmt_cur)
               /\ \E d \in SUBSET DirFiles : dir' = d
               /\ pc' = "downloaded"
          ELSE /\ pc' = "backoff"
               /\ UNCHANGED <<folder, fmt, dir>>
  /\ UNCHANGED <<resolved, content_type, track_list, fmt_cur, attempt, sleeps, folder_exists, log>>
  /\ UNCHANGED convertVars

\* time.sleep after a failed attempt, then the next iteration; when the
\* range is exhausted run_spotdl_download returns None: the preferred
\* format hands over to the fallback format, the fallback format returns
SpotdlBackoff ==
  /\ pc = "backoff"
  /\ sleeps' = Append(sleeps, [fmt |-> fmt_cur, attempt |-> attempt, delay |-> Backoff(attempt)])
  /\ IF attempt < LastAttempt
     THEN /\ attempt' = attempt + 1
          /\ pc' = "spotdl"
          /\ UNCHANGED <<fmt_cur, folder, fmt>>
     ELSE IF fmt_cur = PREFERRED_FORMAT
     THEN /\ fmt_cur' = FALLBACK_FORMAT
          /\ attempt' = 1
          /\ pc' = "spotdl"
          /\ UNCHANGED <<folder, fmt>>
     ELSE /\ folder' = None
          /\ fmt' = ReturnedFormat(FALLBACK_FORMAT)
          /\ pc' = "downloaded"
          /\ UNCHANGED <<fmt_cur, attempt>>
  /\ UNCHANGED <<resolved, content_type, track_list, calls, folder_exists, dir, log>>
  /\ UNCHANGED convertVars

\* download_spotify_url:  if folder and folder.exists()  is false
DownloadFailed ==
  /\ pc = "downloaded"
  /\ ~(folder # None /\ folder_exists)
  /\ pc' = "done"
  /\ UNCHANGED <<resolved, content_type, track_list, log>>
  /\ UNCHANGED downloadVars
  /\ UNCHANGED convertVars

(* ------------------------------ matching ------------------------------- *)
\* f.is_file() and f.suffix.lower() in {'.mp3', '.flac', '.wav', '.ogg'}
is_audio(f) == lower(f.suffix) \in AudioSuffixes

\* the inner loop  for f in files  from index i on: the first file whose
\* lower-cased stem contains the lower-cased title, or NoFile
RECURSIVE first_match(_, _, _)
first_match(track, fs, i) ==
  IF i > Len(fs) THEN NoFile
  ELSE IF contains(lower(fs[i].stem), lower(track.title)) THEN fs[i]
  ELSE first_match(track, fs, i + 1)

\* slip: the default pad_digits of embed_metadata instead of the computed one
PadDigitsDefault(tracks) == 2

\* pad_digits = len(str(len(track_list)))
PadDigits(tracks) == Len(str(Len(tracks)))

\* the outer loop  for track in track_list  from index t on
RECURSIVE match_tracks(_, _, _, _)
match_tracks(tracks, fs, pad, t) ==
  IF t > Len(tracks) THEN <<>>
  ELSE LET f == first_match(tracks[t], fs, 1)
           rest == match_tracks(tracks, fs, pad, t + 1)
       IN IF f # NoFile
          THEN << [f |-> f, track |-> tracks[t], index |-> t, pad_digits |-> pad] >> \o rest
          ELSE rest

\* embed_metadata: the output path of a tuple
output_file(m) ==
  [stem   |-> zfill(str(m.track.number), m.pad_digits)
                \o <<" ", "-", " ">> \o sanitize_filename(m.track.title),
   suffix |-> <<".", "m", "4", "a">>]

(* --------------------------- post-processing --------------------------- *)
Pairs == 1..Len(matched)
Running == { i \in Pairs : status[i] = "running" }

\* slip: a thread per work item, whatever max_workers is
worker_always_available == TRUE

\* a pool thread is free to take the next work item
worker_available == Cardinality(Running) < max_workers

\* executor.map's result iterator blocks until the future is done
future_done(i) == status[i] = "finished"

\* slip: converted += 1 for every result, None included
count_result_always(n, r) == n + 1

\* converted += 1  under  if output_file
count_result(n, r) == IF r # NoFile THEN n + 1 ELSE n

\* slip: if num >= 0
log_condition_any(num) == num >= 0

\* download_spotify_url:  if num > 0
log_condition(num) == num > 0

\* convert_to_aac_parallel up to the submission of every tuple to the pool
ConvertStart ==
  /\ pc = "downloaded"
  /\ folder # None /\ folder_exists
  /\ LET fs == sorted({ f \in dir : is_audio(f) })
         pad == PadDigits(track_list)
         ms == match_tracks(track_list, fs, pad, 1)
     IN /\ files' = fs
        /\ pad_digits' = pad
        /\ matched' = ms
        /\ status' = [i \in 1..Len(ms) |-> "queued"]
        /\ saw' = [i \in 1..Len(ms) |-> FALSE]
        /\ returncode' = [i \in 1..Len(ms) |-> -1]
        /\ result' = [i \in 1..Len(ms) |-> NoFile]
        /\ starts' = [i \in 1..Len(ms) |-> 0]
  /\ \E w \in 1..MaxWorkers : max_workers' = w
  /\ consumed' = 0
  /\ converted' = 0
  /\ pc' = "pool"
  /\ UNCHANGED <<resolved, content_type, track_list, log>>
  /\ UNCHANGED downloadVars

\* a pool thread takes the oldest queued tuple and calls embed_metadata:
\* ffmpeg starts and opens its input file
WorkerTake(i) ==
  /\ pc = "pool"
  /\ status[i] = "queued"
  /\ \A j \in 1..(i - 1) : status[j] # "queued"
  /\ worker_available
  /\ status' = [status EXCEPT ![i] = "running"]
  /\ saw' = [saw EXCEPT ![i] = matched[i].f \in dir]
  /\ starts' = [starts EXCEPT ![i] = @ + 1]
  /\ UNCHANGED <<pc, resolved, content_type, track_list, log, files, pad_digits,
                 matched, max_workers, returncode, result, consumed, converted>>
  /\ UNCHANGED downloadVars

\* ffmpeg exits (never with 0 when it found no input file) and
\* embed_metadata returns: on exit 0 the input is unlinked and the output
\* path returned, otherwise None is returned
EmbedFinish(i) ==
  /\ pc = "pool"
  /\ status[i] = "running"
  /\ \E rc \in ExitCodes :
       /\ saw[i] \/ rc # 0
       /\ returncode' = [returncode EXCEPT ![i] = rc]
       /\ IF rc = 0
          THEN /\ dir' = (dir \ {matched[i].f}) \cup {output_file(matched[i])}
               /\ result' = [result EXCEPT ![i] = output_file(matched[i])]
          ELSE /\ dir' = dir
               /\ result' = [result EXCEPT ![i] = NoFile]
  /\ status' = [status EXCEPT ![i] = "finished"]
  /\ UNCHANGED <<pc, resolved, content_type, track_list, log, files, pad_digits, matched,
                 max_workers, saw, starts, consumed, converted>>
  /\ UNCHANGED <<fmt_cur, attempt, calls, sleeps, folder, fmt, folder_exists>>

\* the main thread takes the next result of executor.map, in order
Consume ==
  /\ pc = "pool"
  /\ consumed < Len(matched)
  /\ future_done(consumed + 1)
  /\ converted' = count_result(converted, result[consumed + 1])
  /\ consumed' = consumed + 1
  /\ UNCHANGED <<pc, resolved, content_type, track_list, log, files, pad_digits,
                 matched, max_workers, status, saw, returncode, result, starts>>
  /\ UNCHANGED downloadVars

\* the with block ends (the pool is shut down, waiting for its threads),
\* convert_to_aac_parallel returns converted, download_spotify_url logs
ConvertReturn ==
  /\ pc = "pool"
  /\ consumed = Len(matched)
  /\ Running = {}
  /\ log' = IF log_condition(converted)
            THEN Append(log, [num_songs |-> converted, fmt |-> fmt, status |-> "SUCCESS"])
            ELSE log
  /\ pc' = "done"
  /\ UNCHANGED <<resolved, content_type, track_list>>
  /\ UNCHANGED downloadVars
  /\ UNCHANGED convertVars

Next ==
  \/ ResolveEmpty
  \/ ResolveRaises
  \/ ResolveAlbum
  \/ ResolveTrack
  \/ ResolvePlaylist
  \/ ResolveLiked
  \/ SpotdlRun
  \/ SpotdlBackoff
  \/ DownloadFailed
  \/ ConvertStart
  \/ \E i \in Pairs : WorkerTake(i)
  \/ \E i \in Pairs : EmbedFinish(i)
  \/ Consume
  \/ ConvertReturn

Spec == Init /\ [][Next]_vars

(* ------------------ padding width on long track lists ------------------ *)
\* convert_to_aac_parallel called on a downloaded folder with a track list
\* of 1..MaxPadTracks tracks
InitPad ==
  /\ pc = "downloaded"
  /\ resolved = "collection"
  /\ content_type = "liked"
  /\ \E n \in 1..MaxPadTracks : \E t \in Titles :
        track_list = get_liked_tracks([i \in 1..n |-> t])
  /\ fmt_cur = PREFERRED_FORMAT
  /\ attempt = 1
  /\ calls = << [fmt |-> PREFERRED_FORMAT, attempt |-> 1, returncode |-> 0] >>
  /\ sleeps = <<>>
  /\ folder = "target_folder"
  /\ fmt = PREFERRED_FORMAT
  /\ folder_exists = TRUE
  /\ dir \in SUBSET DirFiles
  /\ files = <<>>
  /\ pad_digits = 0
  /\ matched = <<>>
  /\ max_workers = 1
  /\ status = <<>>
  /\ saw = <<>>
  /\ returncode = <<>>
  /\ result = <<>>
  /\ starts = <<>>
  /\ consumed = 0
  /\ converted = 0
  /\ log = <<>>

NextPad == ConvertStart

SpecPad == InitPad /\ [][NextPad]_vars

(* ------------------------------ claims --------------------------------- *)
\* download_spotify_url got past metadata resolution and acquisition returned
Returned == pc \in {"downloaded", "pool"} \/ (pc = "done" /\ resolved = "collection")
\* convert_to_aac_parallel has returned
Converted == pc = "done" /\ resolved = "collection" /\ folder # None

\* C1: the matching step never puts one file into two pairs nor one track
\* into two pairs.
C1_OneToOneMatching ==
  \A i \in Pairs : \A j \in Pairs :
     i # j => /\ matched[i].f # matched[j].f
              /\ matched[i].index # matched[j].index

PreferredCalls == { i \in 1..Len(calls) : calls[i].fmt = PREFERRED_FORMAT }
FallbackCalls == { i \in 1..Len(calls) : calls[i].fmt = FALLBACK_FORMAT }
SleepsOf(f) == { i \in 1..Len(sleeps) : sleeps[i].fmt = f }

\* C2: the preferred format is tried first and at most retries+1 times, no
\* attempt follows an exit 0, the fallback format is tried only after
\* retries+1 failed preferred attempts, and within one format the first
\* backoff is 2 and each later one doubles (2^k after failed attempt k).
C2_RetryThenFallback ==
  /\ \A i \in PreferredCalls : \A j \in FallbackCalls : i < j
  /\ Cardinality(PreferredCalls) <= retries + 1
  /\ Cardinality(FallbackCalls) <= retries + 1
  /\ \A i \in 1..(Len(calls) - 1) : calls[i].returncode # 0
  /\ (FallbackCalls # {}) =>
        Cardinality({ i \in PreferredCalls : calls[i].returncode # 0 }) = retries + 1
  /\ \A f \in {PREFERRED_FORMAT, FALLBACK_FORMAT} : \A i \in SleepsOf(f) :
        LET earlier == { j \in SleepsOf(f) : j < i }
        IN /\ sleeps[i].attempt = Cardinality(earlier) + 1
           /\ IF earlier = {} THEN sleeps[i].delay = 2
              ELSE \A j \in earlier :
                     /\ sleeps[j].delay < sleeps[i].delay
                     /\ (\A k \in earlier : k <= j) => sleeps[i].delay = 2 * sleeps[j].delay

C2_Witness ==
  /\ FallbackCalls # {}
  /\ Cardinality(SleepsOf(PREFERRED_FORMAT)) = retries + 1
  /\ Cardinality(SleepsOf(FALLBACK_FORMAT)) = 2

\* C3: the orchestrator returns the folder with the format of the attempt
\* that exited 0, returns no folder exactly when all 2*(retries+1) attempts
\* failed, and never makes more than 2*(retries+1) attempts.
C3_ReturnValue ==
  /\ Len(calls) <= 2 * (retries + 1)
  /\ Returned =>
       /\ Len(calls) >= 1
       /\ folder # None <=> calls[Len(calls)].returncode = 0
       /\ folder # None => fmt = calls[Len(calls)].fmt
       /\ (\E i \in PreferredCalls : calls[i].returncode = 0)
            => (folder # None /\ fmt = PREFERRED_FORMAT)
       /\ (/\ \A i \in PreferredCalls : calls[i].returncode # 0
           /\ \E i \in FallbackCalls : calls[i].returncode = 0)
            => (folder # None /\ fmt = FALLBACK_FORMAT)
       /\ folder = None <=> (/\ Len(calls) = 2 * (retries + 1)
                             /\ \A i \in 1..Len(calls) : calls[i].returncode # 0)

C3_Witness ==
  /\ Returned
  /\ folder # None
  /\ fmt = FALLBACK_FORMAT
  /\ Len(calls) = retries + 2

\* C4: once convert_to_aac_parallel has returned, the input file of every
\* pair that reported failure is still in the folder.
C4_FailedPairKeepsInput ==
  Converted =>
    \A i \in Pairs : result[i] = NoFile => matched[i].f \in dir

\* the pairs whose transcode exited 0
Succeeded == { i \in Pairs : returncode[i] = 0 }

\* C5: a log entry exists at the end of a request exactly when metadata
\* resolved to a collection, acquisition returned a folder and at least one
\* pair was transcoded; it carries that count and the returned format; no
\* entry exists earlier, post-processing never starts without a folder, and
\* there is never more than one entry.
C5_LogIffSuccess ==
  /\ Len(log) <= 1
  /\ pc \notin {"done", "raised"} => log = <<>>
  /\ (resolved # "collection" \/ folder = None) => (log = <<>> /\ matched = <<>> /\ status = <<>>)
  /\ pc \in {"done", "raised"} =>
       (Len(log) = 1 <=> (/\ resolved = "collection"
                          /\ folder # None
                          /\ Cardinality(Succeeded) > 0))
  /\ Len(log) = 1 =>
       /\ log[1].num_songs = Cardinality(Succeeded)
       /\ log[1].fmt = calls[Len(calls)].fmt

C5_Witness ==
  /\ pc = "done"
  /\ Len(track_list) = 2
  /\ Len(matched) = 1
  /\ Len(log) = 1
  /\ log[1].num_songs = 1

\* C6: the count of convert_to_aac_parallel never exceeds the number of
\* matched pairs or the number of tracks, and the returned count is the
\* number of pairs whose transcode exited 0.
C6_CountBounds ==
  /\ converted <= Len(matched)
  /\ converted <= Len(track_list)
  /\ converted = Cardinality({ i \in Succeeded : i <= consumed })
  /\ Converted => converted = Cardinality(Succeeded)

C6_Witness ==
  /\ Converted
  /\ Len(matched) = 2
  /\ Cardinality(Succeeded) = 1
  /\ converted = 1

\* C7: the tracks of a playlist are numbered 1..len(tracks) without gaps.
C7_PlaylistPositionsGapFree ==
  (resolved = "collection" /\ content_type = "playlist") =>
     \A i \in 1..Len(track_list) : track_list[i].number = i

\* the engine behaved as a function of its input file's presence and content
DeterministicEngine ==
  \A i \in Pairs : \A j \in Pairs :
     (/\ returncode[i] # -1 /\ returncode[j] # -1
      /\ matched[i].f = matched[j].f /\ saw[i] = saw[j])
       => returncode[i] = returncode[j]

\* the pairs whose input file the engine transcodes with exit 0: the count
\* of the schedule in which every transcode starts before any finishes
TranscodableCount ==
  Cardinality({ i \in Pairs : \E j \in Pairs :
                  matched[j].f = matched[i].f /\ saw[j] /\ returncode[j] = 0 })

\* C8: with a deterministic engine the returned count does not depend on
\* the schedule of the pool threads, no pair changing another's outcome:
\* when the pool is large enough for every transcode to start before any
\* finishes, every schedule returns the count of that schedule.
C8_CountScheduleIndependent ==
  (Converted /\ DeterministicEngine /\ max_workers >= Len(matched))
     => converted = TranscodableCount

\* C9: at most max_workers transcodes are in flight, every matched pair is
\* handed to embed_metadata exactly once, and convert_to_aac_parallel
\* returns only after every pair has finished.
C9_BoundedPool ==
  /\ Cardinality(Running) <= max_workers
  /\ \A i \in Pairs : /\ starts[i] <= 1
                      /\ status[i] = "queued" <=> starts[i] = 0
                      /\ status[i] = "finished" <=> returncode[i] # -1
  /\ Converted => \A i \in Pairs : status[i] = "finished" /\ starts[i] = 1

C9_Witness ==
  /\ pc = "pool"
  /\ Cardinality(Running) = max_workers
  /\ \E i \in Pairs : status[i] = "queued"

\* C10: for a non-empty track list of n tracks the padding width w is the
\* number of decimal digits of n (10^(w-1) <= n < 10^w), and every pair
\* carries that width.
C10_PadWidth ==
  (pc = "pool" /\ Len(track_list) >= 1) =>
     /\ pad_digits >= 1
     /\ Pow(10, pad_digits - 1) <= Len(track_list)
     /\ Len(track_list) < Pow(10, pad_digits)
     /\ \A i \in Pairs : /\ matched[i].pad_digits = pad_digits
                         /\ Len(zfill(str(matched[i].track.number), matched[i].pad_digits))
                              = pad_digits

C10_Witness ==
  /\ pc = "pool"
  /\ Len(track_list) = 10
  /\ pad_digits = 2
  /\ Len(matched) = 10


\* run_spotdl_download has returned for format f
FormatFinished(f) ==
  \/ Returned
  \/ (f = PREFERRED_FORMAT /\ fmt_cur = FALLBACK_FORMAT)

CallsOf(f) == { i \in 1..Len(calls) : calls[i].fmt = f }

\* C11: the backoff sleep happens only between two attempts of one format:
\* a format that has made n >= 1 attempts and returned has slept n-1 times,
\* so no sleep follows its final failed attempt.
C11_NoSleepAfterFinalAttempt ==
  \A f \in {PREFERRED_FORMAT, FALLBACK_FORMAT} :
     (FormatFinished(f) /\ CallsOf(f) # {})
        => Cardinality(SleepsOf(f)) = Cardinality(CallsOf(f)) - 1

====
